---------------------------- MODULE Spec2Model ----------------------------
(***************************************************************************)
(* A model of the ascii-zoo game core: src/game/movement.py (collision     *)
(* detection and resolution), src/game/collision.py, src/game/animal.py    *)
(* (health, prey relation, targeting, integration) and src/game/engine.py  *)
(* (arena walls and the event loop of Engine.start).                       *)
(*                                                                         *)
(* Numbers.  The code computes in float64; the model computes the same     *)
(* expressions in exact arithmetic:                                        *)
(*   - a vector is a pair <<x, y>> of integers;                            *)
(*   - a mass is a "big" number [w |-> k, c |-> n] standing for            *)
(*     k * 10^15 + n, because the wall's mass 10 ** 15 does not fit the    *)
(*     32-bit integers of the model checker;                               *)
(*   - the result of collide is a pair of numerator vectors over a common  *)
(*     denominator, so nothing is rounded inside collide.                  *)
(***************************************************************************)
EXTENDS Integers, Naturals, Sequences, FiniteSets, TLC

--------------------------------------------------------------------------
(* Scalars and vectors *)

Abs(x) == IF x < 0 THEN -x ELSE x

Sign(x) == IF x < 0 THEN -1 ELSE IF x > 0 THEN 1 ELSE 0

\* int(f) of a float, and the float -> int conversion of a pygame Rect
\* coordinate: truncation toward zero of the fraction n / d, d > 0
Trunc(n, d) == IF n >= 0 THEN n \div d ELSE -((-n) \div d)

\* np.ceil / np.floor of the fraction n / d, d > 0
Floor(n, d) == n \div d

Ceil(n, d) == -((-n) \div d)

VAdd(u, v) == <<u[1] + v[1], u[2] + v[2]>>

VSub(u, v) == <<u[1] - v[1], u[2] - v[2]>>

VScale(k, v) == <<k * v[1], k * v[2]>>

\* |v|^2; np.linalg.norm(v) is its square root
NormSq(v) == v[1] * v[1] + v[2] * v[2]

\* np.linalg.norm of an axis-aligned vector (the only vectors whose norm the
\* engine model takes: all animals of a run sit on one horizontal line)
NormAxis(v) == Abs(v[1]) + Abs(v[2])

--------------------------------------------------------------------------
(* Big numbers k * 10^15 + n *)

Big(k, n) == [w |-> k, c |-> n]

BInt(n) == Big(0, n)

BAdd(p, q) == Big(p.w + q.w, p.c + q.c)

BSub(p, q) == Big(p.w - q.w, p.c - q.c)

\* integer times big
BMul(n, p) == Big(n * p.w, n * p.c)

BNeg(p) == Big(-p.w, -p.c)

\* p < q; the c parts are 32-bit integers, far below 10^15, so the order is
\* lexicographic
BLess(p, q) == p.w < q.w \/ (p.w = q.w /\ p.c < q.c)

BAbs(p) == IF BLess(p, BInt(0)) THEN BNeg(p) ELSE p

BVec(n, v) == <<BMul(v[1], n), BMul(v[2], n)>>

\* the integer nearest to p / q for q > 0, where it is within 1/2 of it
BNearest(p, q) ==
    IF q.w = 0
    THEN (2 * p.c + q.c) \div (2 * q.c)
    ELSE p.w \div q.w

\* 10 * 15 written for 10 ** 15
WallMassProduct == BInt(150)

\* the wall's mass, 10 ** 15
WallMass == Big(1, 0)

--------------------------------------------------------------------------
(* src/game/movement.py: collide *)

\* The rotation of collide, scaled by |center_to_center|: phi is
\* arccos(c[0] / |c|), which lies in [0, pi], so cos(phi) = c[0] / |c| and
\* sin(phi) = +sqrt(1 - cos^2) = |c[1]| / |c|: the sign of c[1] is not in phi.
RotCos(c) == c[1]

RotSin(c) == Abs(c[2])

\* rotation_matrix.dot(v), scaled by |c|
Rotate(c, v) ==
    <<RotCos(c) * v[1] + RotSin(c) * v[2],
      (-RotSin(c)) * v[1] + RotCos(c) * v[2]>>

\* rotation_matrix_inverse.dot(u) for a big vector u, scaled by |c|
RotateBack(c, u) ==
    <<BSub(BMul(RotCos(c), u[1]), BMul(RotSin(c), u[2])),
      BAdd(BMul(RotSin(c), u[1]), BMul(RotCos(c), u[2]))>>

\* u1x and u2x of collide, times (m1 + m2); x1, x2 are the rotated x components
ElasticU1(x1, x2, m1, m2) ==
    BAdd(BMul(x1, BSub(m1, m2)), BMul(x2, BAdd(m2, m2)))

\* u2x with m1 + m2 written for m1 + m1
ElasticU2Slip(x1, x2, m1, m2) ==
    BAdd(BMul(x1, BAdd(m1, m2)), BMul(x2, BSub(m2, m1)))

ElasticU2(x1, x2, m1, m2) ==
    BAdd(BMul(x1, BAdd(m1, m1)), BMul(x2, BSub(m2, m1)))

\* collide(center_to_center, v1, v2, m1, m2).  The result is
\* [err, u1, u2, den]: the returned velocities are u1 / den and u2 / den with
\* den = |c|^2 * (m1 + m2); err is TRUE where the code raises ValueError.
collide(c, v1, v2, m1, m2) ==
    IF NormSq(c) = 0
    THEN [err |-> TRUE, u1 |-> <<BInt(0), BInt(0)>>, u2 |-> <<BInt(0), BInt(0)>>,
          den |-> BInt(1)]
    ELSE LET r1 == Rotate(c, v1)
             r2 == Rotate(c, v2)
             msum == BAdd(m1, m2)
             w1 == <<ElasticU1(r1[1], r2[1], m1, m2), BMul(r1[2], msum)>>
             w2 == <<ElasticU2(r1[1], r2[1], m1, m2), BMul(r2[2], msum)>>
         IN  [err |-> FALSE,
              u1 |-> RotateBack(c, w1),
              u2 |-> RotateBack(c, w2),
              den |-> BMul(NormSq(c), msum)]

\* a velocity returned by collide as the engine stores it: the integer vector
\* nearest to u / den (exact for two animals of mass 1 on an axis; for a wall
\* the code's float differs from it by 2|v| / (10^15 + 1))
Velocity(u, den) == <<BNearest(u[1], den), BNearest(u[2], den)>>

--------------------------------------------------------------------------
(* Bounds of the model and constants of the program *)

\* the animals of a run are 1 .. NumAnimals; None is Python's None
NumAnimals == 2

Animals == 1 .. NumAnimals

None == 0

\* the loop is followed for at most MaxTicks iterations
MaxTicks == 24

\* reduce_health calls made on the animals before the loop starts
MaxReduceCalls == 1

\* also_likes_to_eat calls made before the loop starts, and their arguments
MaxEatCalls == 2

MaxEatArgs == 2

\* the rendered glyph's rect (it depends on the font): width and height
AnimalWidth == 4

AnimalHeight == 6

\* Animal.__init__ defaults: mass, max_speed, exertion_magnitude
DefaultMass == 1

DefaultMaxSpeed == 50

ExertionMagnitude == 20

\* time_step = 0.3 of Engine.start, as a fraction
TimeStepNum == 3

TimeStepDen == 10

\* the speed an animal leaves with when it dies
ExitSpeed == 200

\* AnimalImage.num_death_frames
num_death_frames == 20

\* the screen of the tests, 600 x 600
ScreenWidth == 600

ScreenHeight == 600

\* the offsets in the wall equations of GameBoard
TopOffset == 35

LeftOffset == 30

BottomOffset == 4

RightOffset == 30

\* the row the animals of a run are put on, and the columns they are put at:
\* 20 is behind the left wall, 300 and 303 overlap, 300 and 308 touch
RowY == 300

Columns == {20, 300, 303, 308}

\* max_health and damage_infliction_magnitude given to the constructors:
\* odd animals have two health points, animal 1 hits twice as hard
MaxHealthOf(a) == IF a % 2 = 1 THEN 2 ELSE 1

DamageOf(a) == IF a = 1 THEN 2 ELSE 1

\* Animal.radius = min(rect.width, rect.height)
Radius == IF AnimalWidth < AnimalHeight THEN AnimalWidth ELSE AnimalHeight

\* rect.center of a freshly constructed animal (rect at the origin)
DefaultCenter == <<AnimalWidth \div 2, AnimalHeight \div 2>>

--------------------------------------------------------------------------
(* src/game/engine.py: GameBoard and Wall *)

\* GameBoard.walls with the walls in the order of their names
WallNamesSorted == <<"bottom", "left", "right", "top">>

\* GameBoard.walls, in the order of the dict
WallNames == <<"top", "left", "bottom", "right">>

\* Wall.normal
Normal(wall) ==
    CASE wall = "top" -> <<0, 1>>
      [] wall = "left" -> <<1, 0>>
      [] wall = "bottom" -> <<0, -1>>
      [] wall = "right" -> <<-1, 0>>

\* Wall.implicit_line_equation
implicit_line_equation(wall, p) ==
    CASE wall = "top" -> p[2] - TopOffset
      [] wall = "left" -> p[1] - LeftOffset
      [] wall = "bottom" -> ScreenHeight - p[2] - BottomOffset
      [] wall = "right" -> ScreenWidth - p[1] - RightOffset

\* Wall.distance_to(animal) for an animal at position p: the line equation at
\* animal.position + animal.radius (the radius is added to both coordinates)
distance_to_wall(wall, p) ==
    implicit_line_equation(wall, <<p[1] + Radius, p[2] + Radius>>)

\* GameBoard.collided_with_wall: the first wall behind which the animal is, or
\* "none"
RECURSIVE first_wall(_, _)
first_wall(i, p) ==
    IF i > Len(WallNames) THEN "none"
    ELSE IF distance_to_wall(WallNames[i], p) < 0 THEN WallNames[i]
    ELSE first_wall(i + 1, p)

collided_with_wall(p) == first_wall(1, p)

--------------------------------------------------------------------------
(* src/game/movement.py: detection *)

\* collide_circle with the circles that only touch left out
collide_circle_strict(p, q) ==
    NormSq(VSub(p, q)) < (Radius + Radius) * (Radius + Radius)

\* pygame.sprite.collide_circle: the squared distance of the centres is at
\* most the squared sum of the radii
collide_circle(p, q) ==
    NormSq(VSub(p, q)) <= (Radius + Radius) * (Radius + Radius)

\* find_collision returning from the first pass of its loop
find_collision_next(animal, group, position) ==
    IF group = <<>> THEN None
    ELSE IF collide_circle(position[animal], position[Head(group)])
         THEN Head(group)
         ELSE None

\* find_collision(animal, animal_group): the first animal of the group, in
\* the group's order, that collides with animal, or None
RECURSIVE find_collision(_, _, _)
find_collision(animal, group, position) ==
    IF group = <<>> THEN None
    ELSE IF collide_circle(position[animal], position[Head(group)])
         THEN Head(group)
         ELSE find_collision(animal, Tail(group), position)

\* Group.remove: the group without the animals of the set gone
GroupRemove(group, gone) == SelectSeq(group, LAMBDA a : a \notin gone)

\* find_collisions without animal_group.remove(collision.animals)
RECURSIVE find_collisions_keeping(_, _)
find_collisions_keeping(group, position) ==
    IF group = <<>> THEN <<>>
    ELSE LET animal == Head(group)
             rest == Tail(group)
             other == find_collision(animal, rest, position)
         IN  IF other = None
             THEN find_collisions_keeping(rest, position)
             ELSE <<<<animal, other>>>> \o find_collisions_keeping(rest, position)

\* find_collisions(animal_group): the list of Collision pairs
RECURSIVE find_collisions(_, _)
find_collisions(group, position) ==
    IF group = <<>> THEN <<>>
    ELSE LET animal == Head(group)
             rest == Tail(group)
             other == find_collision(animal, rest, position)
         IN  IF other = None
             THEN find_collisions(rest, position)
             ELSE <<<<animal, other>>>>
                    \o find_collisions(GroupRemove(rest, {animal, other}), position)

\* find_wall_collisions(animal_group, gameboard): the animals of the group
\* that are behind a wall, in the group's order, each with the wall that
\* collided_with_wall returns for it
RECURSIVE find_wall_collisions(_, _)
find_wall_collisions(group, position) ==
    IF group = <<>> THEN <<>>
    ELSE (IF collided_with_wall(position[Head(group)]) = "none"
          THEN <<>>
          ELSE <<<<Head(group), collided_with_wall(position[Head(group)])>>>>)
           \o find_wall_collisions(Tail(group), position)

\* find_collisions without `animal_group = animal_group.copy()`
working_group_argument == "argument"

\* animal_group = animal_group.copy(): the Group object the loop of
\* find_collisions removes from is the copy, not the argument
working_group == "copy"

\* the members left in the group the loop of find_collisions works on
RECURSIVE find_collisions_left(_, _)
find_collisions_left(group, position) ==
    IF group = <<>> THEN group
    ELSE find_collisions_left(
             GroupRemove(Tail(group),
                         {find_collision(Head(group), Tail(group), position)}),
             position)

\* the members of the caller's group after find_collisions(animal_group)
group_after_find_collisions(group, position) ==
    IF working_group = "copy"
    THEN group
    ELSE find_collisions_left(group, position)

\* snap_to_grid_in_direction(p1, direction), the point p1 being pnum / pden
snap_to_grid_in_direction(pnum, pden, direction) ==
    <<IF direction[1] > 0 THEN Ceil(pnum[1], pden) ELSE Floor(pnum[1], pden),
      IF direction[2] > 0 THEN Ceil(pnum[2], pden) ELSE Floor(pnum[2], pden)>>

\* collide_animal_into_wall with the animal moved against the wall's normal
collide_animal_into_wall_outward(p, v, wall) ==
    [position |-> IF distance_to_wall(wall, p) < 0
                  THEN snap_to_grid_in_direction(
                           VSub(p, VScale(Abs(distance_to_wall(wall, p)), Normal(wall))),
                           1, Normal(wall))
                  ELSE p,
     u |-> collide(Normal(wall), v, <<0, 0>>, BInt(1), WallMass).u1,
     den |-> collide(Normal(wall), v, <<0, 0>>, BInt(1), WallMass).den]

\* collide_animal_into_wall(animal, wall) for an animal at position p with
\* velocity v: its new position, and its new velocity as u / den
collide_animal_into_wall(p, v, wall) ==
    LET distance == distance_to_wall(wall, p)
        moved == IF distance < 0
                 THEN snap_to_grid_in_direction(
                          VAdd(p, VScale(Abs(distance), Normal(wall))), 1,
                          Normal(wall))
                 ELSE p
        hit == collide(Normal(wall), v, <<0, 0>>, BInt(1), WallMass)
    IN  [position |-> moved, u |-> hit.u1, den |-> hit.den]

--------------------------------------------------------------------------
(* The state *)

VARIABLES
    pc,                   \* "setup", "running", "stopped" or "crashed"
    live,                 \* Engine.live_animals, in the group's order
    dying,                \* Engine.dying_animals, in the group's order
    added,                \* the animals given to add_animals so far
    health,               \* HealthBar.current_health of each animal
    eats,                 \* Animal.eats
    subject,              \* Animal._subject_animal
    frames,               \* AnimalImage.death_frames_executed
    position,             \* Animal.position (rect.center)
    velocity,             \* Animal._velocity, where it is a number
    nan,                  \* whether Animal._velocity is [nan, nan]
    propulsion_force,     \* Animal.propulsion_force
    slow_down_force,      \* Animal.slow_down_force
    play_death_sound,     \* Engine._play_death_sound
    play_collision_sound, \* Engine._play_collision_sound
    played,               \* the play() calls of the last iteration, in order
    end_text,             \* whether end_text of Engine.start is set
    ticks,                \* the iterations of the loop so far
    reduce_calls,         \* reduce_health calls made during setup
    eat_calls,            \* also_likes_to_eat calls made during setup
    raised,               \* the exception the last operation raised, or "none"
    call                  \* the last call of a function checked on its own

vars ==
    <<pc, live, dying, added, health, eats, subject, frames, position,
      velocity, nan, propulsion_force, slow_down_force, play_death_sound,
      play_collision_sound, played, end_text, ticks, reduce_calls, eat_calls,
      raised, call>>

\* the set of the members of a group
Members(group) == {group[i] : i \in 1 .. Len(group)}

\* Group.add: at the end, unless already a member
GroupAdd(group, a) == IF a \in Members(group) THEN group ELSE Append(group, a)

--------------------------------------------------------------------------
(* src/game/animal.py *)

\* is_dead with < written for <=
is_dead_strict(h) == h < 0

\* HealthBar.is_dead
is_dead(h) == h <= 0

\* reduce_health clamping at zero
reduce_health_clamped(h, amount) == IF h - amount < 0 THEN 0 ELSE h - amount

\* HealthBar.reduce_health: the health after the call
reduce_health(h, amount) == h - amount

\* Animal.wants_to_eat
wants_to_eat(e, a, b) == b \in e[a]

\* death_animation_finished with >= written for >
death_animation_finished_early(f) == f >= num_death_frames

\* AnimalImage.death_animation_finished
death_animation_finished(f) == f > num_death_frames

\* off_screen with <= and >= written for < and >
off_screen_inclusive(p) ==
    \/ p[1] <= -AnimalWidth
    \/ p[2] <= -AnimalHeight
    \/ p[1] >= ScreenWidth + AnimalWidth
    \/ p[2] >= ScreenHeight + AnimalHeight

\* Animal.off_screen
off_screen(p) ==
    \/ p[1] < -AnimalWidth
    \/ p[2] < -AnimalHeight
    \/ p[1] > ScreenWidth + AnimalWidth
    \/ p[2] > ScreenHeight + AnimalHeight

\* on_top never finding the animals on top of each other
on_top_never(p, q) == FALSE

\* Animal.on_top
on_top(p, q) == p = q

\* the unit vector of an axis-aligned vector
UnitAxis(v) == <<Sign(v[1]), Sign(v[2])>>

\* Animal.normalized_vector_to, from the position p to the position q: the
\* ValueError it raises where the distance is 0, or the unit vector
normalized_vector_to(p, q) ==
    IF NormAxis(VSub(q, p)) = 0
    THEN [raised |-> "DegenerateDirection", vector |-> <<0, 0>>]
    ELSE [raised |-> "none", vector |-> UnitAxis(VSub(q, p))]

\* the velocity setter: slow_down_force is set from the velocity being replaced
set_velocity(w, a, v, isnan) ==
    LET old == w.velocity[a]
        slow == IF ~w.nan[a] /\ NormAxis(old) > DefaultMaxSpeed
                THEN VScale(-ExertionMagnitude, UnitAxis(old))
                ELSE <<0, 0>>
    IN  [w EXCEPT !.slow_down_force[a] = slow,
                  !.velocity[a] = v,
                  !.nan[a] = isnan]

\* self.propulsion_force = normalized_vector_to(animal) * magnitude, for the
\* answer toward of normalized_vector_to: its ValueError ends the loop
propel(w, a, magnitude, toward) ==
    IF toward.raised # "none"
    THEN [w EXCEPT !.crashed = toward.raised]
    ELSE [w EXCEPT !.propulsion_force[a] = VScale(magnitude, toward.vector)]

\* the subject_animal setter leaving None where the animal is on top
set_subject_animal_dropping(w, a, animal) ==
    IF animal = None
    THEN [w EXCEPT !.subject[a] = None, !.propulsion_force[a] = <<0, 0>>]
    ELSE IF on_top(w.position[a], w.position[animal])
    THEN [w EXCEPT !.subject[a] = None, !.propulsion_force[a] = <<0, 0>>]
    ELSE IF wants_to_eat(w.eats, a, animal)
    THEN propel([w EXCEPT !.subject[a] = animal], a, ExertionMagnitude,
                normalized_vector_to(w.position[a], w.position[animal]))
    ELSE IF wants_to_eat(w.eats, animal, a)
    THEN propel([w EXCEPT !.subject[a] = animal], a, -ExertionMagnitude,
                normalized_vector_to(w.position[a], w.position[animal]))
    ELSE [w EXCEPT !.subject[a] = animal, !.crashed = "InvalidFocusRelation"]

\* the subject_animal setter; the ValueError of its last branch ends the loop
set_subject_animal(w, a, animal) ==
    LET w1 == [w EXCEPT !.subject[a] = animal]
    IN  IF animal = None
        THEN [w1 EXCEPT !.propulsion_force[a] = <<0, 0>>]
        ELSE IF on_top(w.position[a], w.position[animal])
        THEN [w1 EXCEPT !.propulsion_force[a] = <<0, 0>>]
        ELSE IF wants_to_eat(w.eats, a, animal)
        THEN propel(w1, a, ExertionMagnitude,
                    normalized_vector_to(w.position[a], w.position[animal]))
        ELSE IF wants_to_eat(w.eats, animal, a)
        THEN propel(w1, a, -ExertionMagnitude,
                    normalized_vector_to(w.position[a], w.position[animal]))
        ELSE [w1 EXCEPT !.crashed = "InvalidFocusRelation"]

\* the place of animal a in the iteration order ord of a set
Rank(ord, a) == CHOOSE i \in 1 .. Len(ord) : ord[i] = a

\* the sort of update_subject_animal over the animals of live_animals rather
\* than over self.eats
NearestOfGroup(w, a, ord) ==
    LET d(x) == NormSq(VSub(w.position[x], w.position[a]))
    IN  CHOOSE x \in Members(w.live) \cup w.eats[a] :
            \A y \in (Members(w.live) \cup w.eats[a]) \ {x} :
                \/ d(x) < d(y)
                \/ d(x) = d(y) /\ Rank(ord, x) < Rank(ord, y)

\* the sort of update_subject_animal with the distances negated
Farthest(w, a, ord) ==
    LET d(x) == NormSq(VSub(w.position[x], w.position[a]))
    IN  CHOOSE x \in w.eats[a] :
            \A y \in w.eats[a] \ {x} :
                \/ d(x) > d(y)
                \/ d(x) = d(y) /\ Rank(ord, x) < Rank(ord, y)

\* the first animal of list(self.eats) sorted by distance: list(set) gives the
\* set's iteration order ord, and the sort is stable
Nearest(w, a, ord) ==
    LET d(x) == NormSq(VSub(w.position[x], w.position[a]))
    IN  CHOOSE x \in w.eats[a] :
            \A y \in w.eats[a] \ {x} :
                \/ d(x) < d(y)
                \/ d(x) = d(y) /\ Rank(ord, x) < Rank(ord, y)

\* update_subject_animal taking no animal that is on top of self
first_of_eats_apart(w, a, ord) ==
    IF is_dead(w.health[a]) \/ w.eats[a] = {}
    THEN w
    ELSE IF on_top(w.position[a], w.position[Nearest(w, a, ord)])
    THEN w
    ELSE set_subject_animal(w, a, Nearest(w, a, ord))

\* update_subject_animal from `if self.is_dead` on: the first animal of the
\* sorted list, if any, becomes the subject_animal
first_of_eats(w, a, ord) ==
    IF is_dead(w.health[a]) \/ w.eats[a] = {}
    THEN w
    ELSE set_subject_animal(w, a, Nearest(w, a, ord))

\* update_subject_animal without the intersection with the group
update_subject_animal_unpruned(w, a, group, ord) ==
    first_of_eats(set_subject_animal(w, a, None), a, ord)

\* Animal.update_subject_animal(animal_group)
update_subject_animal(w, a, group, ord) ==
    first_of_eats(
        set_subject_animal([w EXCEPT !.eats[a] = w.eats[a] \cap Members(group)],
                           a, None),
        a, ord)

\* the int the float -> int conversion of rect.center makes of nan: the
\* conversion is undefined, SSE gives INT_MIN and ARM gives 0
IntMin == (-2147483647) - 1

\* self.position = self.position + self.velocity * time_step, for the
\* position p and the velocity v.  outcome is what assigning nan to
\* rect.center does: "raise", "min" or "zero"
set_position(w, a, p, v, outcome) ==
    IF w.nan[a]
    THEN CASE outcome = "raise" -> [w EXCEPT !.crashed = "TypeError"]
           [] outcome = "min" -> [w EXCEPT !.position[a] = <<IntMin, IntMin>>]
           [] outcome = "zero" -> [w EXCEPT !.position[a] = <<0, 0>>]
    ELSE [w EXCEPT !.position[a] =
             <<Trunc(p[1] * TimeStepDen + v[1] * TimeStepNum, TimeStepDen),
               Trunc(p[2] * TimeStepDen + v[2] * TimeStepNum, TimeStepDen)>>]

\* Animal.update_position(time_step)
update_position(w, a, outcome) ==
    LET force == VAdd(w.propulsion_force[a], w.slow_down_force[a])
        dv == <<(force[1] * TimeStepNum) \div (DefaultMass * TimeStepDen),
                (force[2] * TimeStepNum) \div (DefaultMass * TimeStepDen)>>
        v == VAdd(w.velocity[a], dv)
    IN  set_position(
            set_velocity(w, a, IF w.nan[a] THEN w.velocity[a] ELSE v, w.nan[a]),
            a, w.position[a], v, outcome)

\* AnimalImage.update
image_update(w, a) ==
    IF is_dead(w.health[a]) THEN [w EXCEPT !.frames[a] = @ + 1] ELSE w

--------------------------------------------------------------------------
(* src/game/movement.py: collide_animals; src/game/collision.py *)

\* collide_animals: animals within each other's circles are moved apart
move_apart(w, a, b, distance, center_to_center) ==
    LET too_close_by == Ceil(Radius + Radius - distance, 1)
        p1 == VSub(VScale(2, w.position[a]), VScale(too_close_by, center_to_center))
        p2 == VAdd(VScale(2, w.position[b]), VScale(too_close_by, center_to_center))
    IN  IF distance < Radius + Radius
        THEN [w EXCEPT
                !.position[a] =
                    snap_to_grid_in_direction(p1, 2, VScale(-1, center_to_center)),
                !.position[b] =
                    snap_to_grid_in_direction(p2, 2, center_to_center)]
        ELSE w

\* animal.velocity, other_animal.velocity = hit
set_velocities(w, a, b, hit) ==
    set_velocity(set_velocity(w, a, Velocity(hit.u1, hit.den), FALSE),
                 b, Velocity(hit.u2, hit.den), FALSE)

\* collide_animals from the normalized vector on
collide_along(w, a, b, distance, center_to_center) ==
    set_velocities(move_apart(w, a, b, distance, center_to_center), a, b,
                   collide(center_to_center, w.velocity[a], w.velocity[b],
                           BInt(DefaultMass), BInt(DefaultMass)))

\* collide_animals from `center_to_center = animal.normalized_vector_to(...)`
\* on, for the answer toward of normalized_vector_to
collide_toward(w, a, b, distance, toward) ==
    IF toward.raised # "none"
    THEN [w EXCEPT !.crashed = toward.raised]
    ELSE collide_along(w, a, b, distance, toward.vector)

\* collide_animals without the return where the distance is 0
collide_animals_unchecked(w, a, b) ==
    collide_toward(w, a, b,
                   NormAxis(VSub(w.position[b], w.position[a])),
                   normalized_vector_to(w.position[a], w.position[b]))

\* collide_animals(animal, other_animal)
collide_animals(w, a, b) ==
    IF NormAxis(VSub(w.position[b], w.position[a])) = 0
    THEN w
    ELSE collide_toward(w, a, b,
                        NormAxis(VSub(w.position[b], w.position[a])),
                        normalized_vector_to(w.position[a], w.position[b]))

\* inflict_damage reducing the health by the damage of the animal hit
inflict_damage_own(w, a, b) ==
    [w EXCEPT !.health[b] = reduce_health(@, DamageOf(b))]

\* Animal.inflict_damage(animal): a hits b
inflict_damage(w, a, b) ==
    [w EXCEPT !.health[b] = reduce_health(@, DamageOf(a))]

\* Collision.injure_animals_if_prey
injure_animals_if_prey(w, a, b) ==
    LET w1 == IF wants_to_eat(w.eats, a, b) THEN inflict_damage(w, a, b) ELSE w
    IN  IF wants_to_eat(w1.eats, b, a) THEN inflict_damage(w1, b, a) ELSE w1

\* Collision.animals_were_injured
animals_were_injured(w, a, b) ==
    wants_to_eat(w.eats, a, b) \/ wants_to_eat(w.eats, b, a)

--------------------------------------------------------------------------
(* src/game/engine.py: the loops of one iteration of Engine.start *)

\* Engine.all_animals: the live animals, then the dying ones
all_animals(w) == w.live \o GroupRemove(w.dying, Members(w.live))

\* add_animals putting every animal into dying_animals
add_animals_dying(w, a) == [w EXCEPT !.dying = GroupAdd(@, a)]

\* Engine.add_animals, for one animal
add_animals(w, a) ==
    IF is_dead(w.health[a])
    THEN [w EXCEPT !.dying = GroupAdd(@, a)]
    ELSE [w EXCEPT !.live = GroupAdd(@, a)]

\* Engine.kill_animal
kill_animal(w, a) ==
    [w EXCEPT !.live = GroupRemove(@, {a}), !.dying = GroupAdd(@, a)]

\* remove_animal with the groups of kill_animal swapped in
remove_animal_reviving(w, a) ==
    [w EXCEPT !.dying = GroupRemove(@, {a}), !.live = GroupAdd(@, a)]

\* Engine.remove_animal
remove_animal(w, a) ==
    [w EXCEPT !.live = GroupRemove(@, {a}), !.dying = GroupRemove(@, {a})]

\* if collision.animals_were_injured(): self.delayed_collision_sound()
sound_if_injured(w, a, b) ==
    IF animals_were_injured(w, a, b)
    THEN [w EXCEPT !.play_collision_sound = TRUE]
    ELSE w

\* the body of the collision loop after collide_animals
after_collide(w, a, b) ==
    IF w.crashed # "none" THEN w
    ELSE sound_if_injured(injure_animals_if_prey(w, a, b), a, b)

\* the body of the collision loop for the collision of a and b
handle_collision(w, a, b) == after_collide(collide_animals(w, a, b), a, b)

\* for collision in find_collisions(self.live_animals): ...
RECURSIVE collision_loop(_, _)
collision_loop(w, collisions) ==
    IF collisions = <<>> \/ w.crashed # "none" THEN w
    ELSE collision_loop(handle_collision(w, Head(collisions)[1], Head(collisions)[2]),
                        Tail(collisions))

\* the position and velocity collide_animal_into_wall leaves the animal with
bounce(w, a, hit) ==
    set_velocity([w EXCEPT !.position[a] = hit.position],
                 a, Velocity(hit.u, hit.den), FALSE)

\* the body of the wall loop for an animal and the wall it is behind, if any
handle_wall(w, a, wall) ==
    IF wall = "none"
    THEN w
    ELSE bounce(w, a, collide_animal_into_wall(w.position[a], w.velocity[a], wall))

\* for wall_collision in find_wall_collisions(self.live_animals, gameboard): ...
\* (the generator looks at each animal when the loop comes to it; the body of
\* the loop moves only the animal it has been given, so every animal is looked
\* at where it was before the loop)
RECURSIVE wall_loop(_, _)
wall_loop(w, found) ==
    IF found = <<>> \/ w.crashed # "none" THEN w
    ELSE wall_loop(handle_wall(w, Head(found)[1], Head(found)[2]), Tail(found))

\* animal.velocity / animal.speed * 200: nan where the speed is 0
exit_velocity(v) == VScale(ExitSpeed, UnitAxis(v))

\* for animal in self.live_animals: if animal.is_dead: ...
RECURSIVE kill_loop(_, _)
kill_loop(w, group) ==
    IF group = <<>> \/ w.crashed # "none" THEN w
    ELSE LET a == Head(group)
             w1 == set_velocity(w, a, exit_velocity(w.velocity[a]),
                                NormAxis(w.velocity[a]) = 0)
             w2 == [kill_animal(w1, a) EXCEPT !.play_death_sound = TRUE]
         IN  kill_loop(IF is_dead(w.health[a]) THEN w2 ELSE w, Tail(group))

\* for animal in self.dying_animals: if finished or off screen: remove
RECURSIVE remove_loop(_, _)
remove_loop(w, group) ==
    IF group = <<>> \/ w.crashed # "none" THEN w
    ELSE LET a == Head(group)
             gone == \/ death_animation_finished(w.frames[a])
                     \/ off_screen(w.position[a])
         IN  remove_loop(IF gone THEN remove_animal(w, a) ELSE w, Tail(group))

\* animal.update_position(time_step), unless an exception has been raised
then_update_position(w, a, outcome) ==
    IF w.crashed # "none" THEN w ELSE update_position(w, a, outcome)

\* animal.animal_image.update(), unless an exception has been raised
then_image_update(w, a) ==
    IF w.crashed # "none" THEN w ELSE image_update(w, a)

\* for animal in self.all_animals: update subject, position and image; an
\* exception ends the loop where it is raised
RECURSIVE update_loop(_, _, _, _)
update_loop(w, group, ord, outcome) ==
    IF group = <<>> \/ w.crashed # "none" THEN w
    ELSE update_loop(
             then_image_update(
                 then_update_position(
                     update_subject_animal(w, Head(group), w.live, ord),
                     Head(group), outcome),
                 Head(group)),
             Tail(group), ord, outcome)

\* simulation_completed returning True from inside its loop
simulation_completed_any(w, group) ==
    IF Len(group) = 0 THEN TRUE
    ELSE \E i \in 1 .. Len(group) : w.subject[group[i]] = None

\* Engine.simulation_completed(animals)
simulation_completed(w, group) ==
    IF Len(group) = 0 THEN TRUE
    ELSE \A i \in 1 .. Len(group) : w.subject[group[i]] = None

--------------------------------------------------------------------------
(* The operations *)

\* the state as one record, for the loops of an iteration to work on
World ==
    [live |-> live, dying |-> dying, health |-> health, eats |-> eats,
     subject |-> subject, frames |-> frames, position |-> position,
     velocity |-> velocity, nan |-> nan,
     propulsion_force |-> propulsion_force,
     slow_down_force |-> slow_down_force,
     play_death_sound |-> play_death_sound,
     play_collision_sound |-> play_collision_sound,
     crashed |-> "none"]

\* the iteration orders a set of animals may have
Orders == Permutations(Animals)

NoCall == [op |-> "none"]

\* the state after Engine.__init__ and the constructors of the animals
Init ==
    /\ pc = "setup"
    /\ live = <<>>
    /\ dying = <<>>
    /\ added = {}
    /\ health = [a \in Animals |-> MaxHealthOf(a)]
    /\ eats = [a \in Animals |-> {}]
    /\ subject = [a \in Animals |-> None]
    /\ frames = [a \in Animals |-> 0]
    /\ position = [a \in Animals |-> DefaultCenter]
    /\ velocity = [a \in Animals |-> <<0, 0>>]
    /\ nan = [a \in Animals |-> FALSE]
    /\ propulsion_force = [a \in Animals |-> <<0, 0>>]
    /\ slow_down_force = [a \in Animals |-> <<0, 0>>]
    /\ play_death_sound = FALSE
    /\ play_collision_sound = FALSE
    /\ played = <<>>
    /\ end_text = FALSE
    /\ ticks = 0
    /\ reduce_calls = 0
    /\ eat_calls = 0
    /\ raised = "none"
    /\ call = NoCall

\* Animal.put(x, y): each animal is put once, on the row, before it is added
Put(a, x) ==
    /\ pc = "setup"
    /\ a \notin added
    /\ position[a] = DefaultCenter
    /\ position' = [position EXCEPT ![a] = <<x, RowY>>]
    /\ raised' = "none"
    /\ UNCHANGED <<pc, live, dying, added, health, eats, subject, frames,
                   velocity, nan, propulsion_force, slow_down_force,
                   play_death_sound, play_collision_sound, played, end_text,
                   ticks, reduce_calls, eat_calls, call>>

\* also_likes_to_eat without the check of animal == self
RECURSIVE also_likes_to_eat_unchecked(_, _, _)
also_likes_to_eat_unchecked(self, animals, e) ==
    IF animals = <<>> THEN [eats |-> e, raised |-> "none"]
    ELSE also_likes_to_eat_unchecked(self, Tail(animals), e \cup {Head(animals)})

\* the loop of also_likes_to_eat over its arguments: [eats, raised]
RECURSIVE also_likes_to_eat(_, _, _)
also_likes_to_eat(self, animals, e) ==
    IF animals = <<>> THEN [eats |-> e, raised |-> "none"]
    ELSE IF Head(animals) = self
    THEN [eats |-> e, raised |-> "InvalidRelation"]
    ELSE also_likes_to_eat(self, Tail(animals), e \cup {Head(animals)})

\* the argument lists of the also_likes_to_eat calls
EatArgs == UNION {[1 .. n -> Animals] : n \in 1 .. MaxEatArgs}

\* Animal.also_likes_to_eat(*animals)
AlsoLikesToEat(a, animals) ==
    /\ pc = "setup"
    /\ eat_calls < MaxEatCalls
    /\ LET r == also_likes_to_eat(a, animals, eats[a])
       IN  /\ eats' = [eats EXCEPT ![a] = r.eats]
           /\ raised' = r.raised
    /\ eat_calls' = eat_calls + 1
    /\ UNCHANGED <<pc, live, dying, added, health, subject, frames, position,
                   velocity, nan, propulsion_force, slow_down_force,
                   play_death_sound, play_collision_sound, played, end_text,
                   ticks, reduce_calls, call>>

\* the amounts of the reduce_health calls made during setup
MaxAmount == 2

\* Animal.reduce_health(amount)
ReduceHealth(a, amount) ==
    /\ pc = "setup"
    /\ reduce_calls < MaxReduceCalls
    /\ health' = [health EXCEPT ![a] = reduce_health(@, amount)]
    /\ reduce_calls' = reduce_calls + 1
    /\ raised' = "none"
    /\ UNCHANGED <<pc, live, dying, added, eats, subject, frames, position,
                   velocity, nan, propulsion_force, slow_down_force,
                   play_death_sound, play_collision_sound, played, end_text,
                   ticks, eat_calls, call>>

\* add_animals is called between iterations up to this iteration
LastAddTick == 1

\* Engine.add_animals(animal): the animals are first added in the order of
\* their numbers; an animal that has been added may be added again
AddAnimals(a) ==
    /\ pc \in {"setup", "running"}
    /\ ticks <= LastAddTick
    /\ \A b \in Animals : b < a => b \in added
    /\ position[a] # DefaultCenter
    /\ added' = added \cup {a}
    /\ live' = add_animals(World, a).live
    /\ dying' = add_animals(World, a).dying
    /\ raised' = "none"
    /\ UNCHANGED <<pc, health, eats, subject, frames, position, velocity, nan,
                   propulsion_force, slow_down_force, play_death_sound,
                   play_collision_sound, played, end_text, ticks, reduce_calls,
                   eat_calls, call>>

\* Engine.start() is called
Start ==
    /\ pc = "setup"
    /\ pc' = "running"
    /\ raised' = "none"
    /\ UNCHANGED <<live, dying, added, health, eats, subject, frames, position,
                   velocity, nan, propulsion_force, slow_down_force,
                   play_death_sound, play_collision_sound, played, end_text,
                   ticks, reduce_calls, eat_calls, call>>

\* the four loops of an iteration before its last loop, each over the group
\* as it is when the loop starts
collisions(w) ==
    collision_loop([w EXCEPT !.live = group_after_find_collisions(@, w.position)],
                   find_collisions(w.live, w.position))

wall_collisions(w) == wall_loop(w, find_wall_collisions(w.live, w.position))

kill_dead(w) == kill_loop(w, w.live)

remove_dying(w) == remove_loop(w, w.dying)

\* the state of an iteration before its last loop
BeforeUpdate == remove_dying(kill_dead(wall_collisions(collisions(World))))

\* the choices an iteration depends on: the iteration order of a set matters
\* where an animal has two prey, the conversion of nan where a velocity is nan
OrdersOf(w) ==
    IF \E a \in Animals : Cardinality(w.eats[a] \cap Members(w.live)) > 1
    THEN Orders
    ELSE {[a \in Animals |-> a]}

OutcomesOf(w) ==
    IF \E a \in Members(all_animals(w)) : w.nan[a]
    THEN {"raise", "min", "zero"}
    ELSE {"raise"}

\* play_delayed_sounds without the reset of the flags
play_delayed_sounds_keeping(w) ==
    [played |-> (IF w.play_death_sound THEN <<"death">> ELSE <<>>)
                  \o (IF w.play_collision_sound THEN <<"collision">> ELSE <<>>),
     play_death_sound |-> w.play_death_sound,
     play_collision_sound |-> w.play_collision_sound]

\* Engine.play_delayed_sounds: the play() calls it makes, in order, and the
\* flags after it
play_delayed_sounds(w) ==
    [played |-> (IF w.play_death_sound THEN <<"death">> ELSE <<>>)
                  \o (IF w.play_collision_sound THEN <<"collision">> ELSE <<>>),
     play_death_sound |-> FALSE,
     play_collision_sound |-> FALSE]

\* the loop condition made to end the loop once the simulation is completed
running_until_completed(quit, completed) == ~quit /\ ~completed

\* `running` at the end of an iteration: False once the QUIT event was seen
running_after(quit, completed) == ~quit

\* one iteration of the loop of Engine.start from the state w of its last
\* loop; quit is whether it found the QUIT event in the queue
Iteration(w, quit) ==
    /\ live' = w.live
    /\ dying' = w.dying
    /\ health' = w.health
    /\ eats' = w.eats
    /\ subject' = w.subject
    /\ frames' = w.frames
    /\ position' = w.position
    /\ velocity' = w.velocity
    /\ nan' = w.nan
    /\ propulsion_force' = w.propulsion_force
    /\ slow_down_force' = w.slow_down_force
    /\ raised' = w.crashed
    /\ IF w.crashed # "none"
       THEN /\ pc' = "crashed"
            /\ play_death_sound' = w.play_death_sound
            /\ play_collision_sound' = w.play_collision_sound
            /\ played' = <<>>
            /\ end_text' = end_text
       ELSE /\ pc' = IF running_after(quit, simulation_completed(w, all_animals(w)))
                     THEN "running"
                     ELSE "stopped"
            /\ play_death_sound' = play_delayed_sounds(w).play_death_sound
            /\ play_collision_sound' = play_delayed_sounds(w).play_collision_sound
            /\ played' = play_delayed_sounds(w).played
            /\ end_text' = (end_text \/ simulation_completed(w, all_animals(w)))
    /\ ticks' = ticks + 1
    /\ UNCHANGED <<added, reduce_calls, eat_calls, call>>

\* the last loop of an iteration from the state b before it, and its end
UpdateFrom(b) ==
    \E ord \in OrdersOf(b), outcome \in OutcomesOf(b) :
        Iteration(update_loop(b, all_animals(b), ord, outcome), pc = "quitting")

\* the user closes the window: a QUIT event is in the queue for the next
\* iteration to find
QuitEvent ==
    /\ pc = "running"
    /\ pc' = "quitting"
    /\ UNCHANGED <<live, dying, added, health, eats, subject, frames, position,
                   velocity, nan, propulsion_force, slow_down_force,
                   play_death_sound, play_collision_sound, played, end_text,
                   ticks, reduce_calls, eat_calls, raised, call>>

Tick ==
    /\ pc \in {"running", "quitting"}
    /\ ticks < MaxTicks
    /\ UpdateFrom(BeforeUpdate)

Next ==
    \/ \E a \in Animals, x \in Columns : Put(a, x)
    \/ \E a \in Animals, animals \in EatArgs : AlsoLikesToEat(a, animals)
    \/ \E a \in Animals, amount \in 1 .. MaxAmount : ReduceHealth(a, amount)
    \/ \E a \in Animals : AddAnimals(a)
    \/ Start
    \/ QuitEvent
    \/ Tick

Spec == Init /\ [][Next]_vars

--------------------------------------------------------------------------
(* The functions of src/game/movement.py called on their own *)

engine_vars ==
    <<pc, live, dying, added, health, eats, subject, frames, position,
      velocity, nan, propulsion_force, slow_down_force, play_death_sound,
      play_collision_sound, played, end_text, ticks, reduce_calls, eat_calls,
      raised>>

\* the components of the directions and velocities given to collide
MaxDir == 2

MaxVel == 2

\* the masses given to collide
MaxMass == 2

Directions == (-MaxDir .. MaxDir) \X (-MaxDir .. MaxDir)

Velocities == (-MaxVel .. MaxVel) \X (-MaxVel .. MaxVel)

\* collide(center_to_center, v1, v2, m1, m2) is called
CollideCall(c, v1, v2, m1, m2) ==
    /\ call.op = "none"
    /\ call' = [op |-> "collide", c |-> c, v1 |-> v1, v2 |-> v2,
                m1 |-> m1, m2 |-> m2,
                out |-> collide(c, v1, v2, BInt(m1), BInt(m2))]
    /\ UNCHANGED engine_vars

\* the positions of the animals given to collide_animal_into_wall: on both
\* sides of every wall, from MaxBreach behind it
MaxBreach == 2

WallPoints ==
    {<<x, y>> :
        x \in ((LeftOffset - Radius - MaxBreach) .. (LeftOffset - Radius + 1))
              \cup ((ScreenWidth - RightOffset - Radius - 1)
                      .. (ScreenWidth - RightOffset - Radius + MaxBreach)),
        y \in ((TopOffset - Radius - MaxBreach) .. (TopOffset - Radius + 1))
              \cup ((ScreenHeight - BottomOffset - Radius - 1)
                      .. (ScreenHeight - BottomOffset - Radius + MaxBreach))}

\* collide_animal_into_wall(animal, wall) is called
WallCall(p, v, wall) ==
    /\ call.op = "none"
    /\ call' = [op |-> "collide_animal_into_wall", p |-> p, v |-> v,
                wall |-> wall, out |-> collide_animal_into_wall(p, v, wall)]
    /\ UNCHANGED engine_vars

NextCollide ==
    \/ /\ call.op = "none"
       /\ \E c \in Directions, v1 \in Velocities, v2 \in Velocities,
             m1 \in 1 .. MaxMass, m2 \in 1 .. MaxMass :
             CollideCall(c, v1, v2, m1, m2)
    \/ /\ call.op = "none"
       /\ \E p \in WallPoints, v \in Velocities,
             wall \in {WallNames[i] : i \in 1 .. Len(WallNames)} :
             WallCall(p, v, wall)

SpecCollide == Init /\ [][NextCollide]_vars

\* the groups given to find_collisions: up to MaxGroup animals, each at one
\* of the points (with the radius 4, (0,0) overlaps (5,0) and (5,5), touches
\* (8,0) and is clear of (8,5) and (16,0))
MaxGroup == 4

FindPoints == {0, 5, 8, 16} \X {0, 5}

\* find_collisions(animal_group) is called
FindCall(n, where) ==
    /\ call.op = "none"
    /\ call' = [op |-> "find_collisions", group |-> [i \in 1 .. n |-> i],
                position |-> where,
                out |-> find_collisions([i \in 1 .. n |-> i], where),
                after |-> group_after_find_collisions([i \in 1 .. n |-> i], where)]
    /\ UNCHANGED engine_vars

NextFind ==
    /\ call.op = "none"
    /\ \E n \in 1 .. MaxGroup :
          \E where \in [1 .. n -> FindPoints] : FindCall(n, where)

SpecFind == Init /\ [][NextFind]_vars

--------------------------------------------------------------------------
(* Functions of src/game/animal.py and src/game/engine.py called on their own *)

\* the centres given to off_screen: up to MaxOutside beyond each of the four
\* lines the function compares with, and the edges and corners of the screen
MaxOutside == 2

EdgePoints ==
    LET along(extent, size) ==
            ((-extent - MaxOutside) .. (-extent + 1))
              \cup {0, size}
              \cup ((size + extent - 1) .. (size + extent + MaxOutside))
    IN  along(AnimalWidth, ScreenWidth) \X along(AnimalHeight, ScreenHeight)

\* animal.off_screen(screen) is called on an animal with its centre at p
OffScreenCall(p) ==
    /\ call' = [op |-> "off_screen", p |-> p, out |-> off_screen(p)]
    /\ UNCHANGED engine_vars

\* gameboard.collided_with_wall(animal) is called on an animal at p
CollidedWithWallCall(p) ==
    /\ call' = [op |-> "collided_with_wall", p |-> p, out |-> collided_with_wall(p)]
    /\ UNCHANGED engine_vars

\* find_wall_collisions(animal_group, gameboard) is called on a group of n
\* animals at the positions where
FindWallCollisionsCall(n, where) ==
    /\ call' = [op |-> "find_wall_collisions", group |-> [i \in 1 .. n |-> i],
                position |-> where,
                out |-> find_wall_collisions([i \in 1 .. n |-> i], where)]
    /\ UNCHANGED engine_vars

\* the two animals as they are given to collide_animals: at pa and pb on the
\* row, with the velocities va and vb
Pair(pa, pb, va, vb) ==
    [World EXCEPT !.position = [a \in Animals |-> IF a = 1 THEN pa ELSE pb],
                  !.velocity = [a \in Animals |-> IF a = 1 THEN va ELSE vb]]

\* collide_animals(animal, other_animal) is called
CollideAnimalsCall(pa, pb, va, vb) ==
    /\ call' = [op |-> "collide_animals", before |-> Pair(pa, pb, va, vb),
                out |-> collide_animals(Pair(pa, pb, va, vb), 1, 2)]
    /\ UNCHANGED engine_vars

NextBoard ==
    \/ /\ call.op = "none"
       /\ \E p \in EdgePoints : OffScreenCall(p)
    \/ /\ call.op = "none"
       /\ \E p \in WallPoints : CollidedWithWallCall(p)
    \/ /\ call.op = "none"
       /\ \E n \in 1 .. NumAnimals :
             \E where \in [1 .. n -> WallPoints] : FindWallCollisionsCall(n, where)
    \/ /\ call.op = "none"
       /\ \E xa \in Columns, xb \in Columns,
             va \in -MaxVel .. MaxVel, vb \in -MaxVel .. MaxVel :
             CollideAnimalsCall(<<xa, RowY>>, <<xb, RowY>>, <<va, 0>>, <<vb, 0>>)

SpecBoard == Init /\ [][NextBoard]_vars

--------------------------------------------------------------------------
(* Animal.update_subject_animal called on its own *)

\* the animals of a call: animal 1, on which update_subject_animal is called,
\* and the others, which it may want to eat
MaxOthers == 2

Others == 2 .. (MaxOthers + 1)

\* where the animals are: on the row, so that two animals can be at the same
\* place and two can be equally far from a third on either side of it
TargetColumns == {297, 300, 303}

\* the groups given as animal_group, in their order
TargetGroups ==
    {<<1, 2, 3>>, <<1, 3, 2>>, <<2, 3>>, <<3, 2>>, <<1, 2>>, <<1, 3>>, <<1>>}

\* the animals before the call: animal 1 has the health h, the prey e and a
\* subject_animal and a propulsion force left from an earlier iteration
Scene(where, e, h, group) ==
    [live |-> group,
     health |-> [a \in {1} \cup Others |-> IF a = 1 THEN h ELSE 1],
     eats |-> [a \in {1} \cup Others |-> IF a = 1 THEN e ELSE {}],
     subject |-> [a \in {1} \cup Others |-> IF a = 1 THEN 2 ELSE None],
     position |-> where,
     propulsion_force |-> [a \in {1} \cup Others |->
                              IF a = 1 THEN <<ExertionMagnitude, 0>> ELSE <<0, 0>>],
     crashed |-> "none"]

\* animal.update_subject_animal(animal_group) is called on animal 1; ord is
\* the iteration order of the set self.eats
UpdateSubjectCall(before, group, ord) ==
    /\ call' = [op |-> "update_subject_animal", before |-> before,
                group |-> group, ord |-> ord,
                out |-> update_subject_animal(before, 1, group, ord)]
    /\ UNCHANGED engine_vars

NextTarget ==
    /\ call.op = "none"
    /\ \E where \in [{1} \cup Others -> {<<x, RowY>> : x \in TargetColumns}],
          e \in SUBSET Others, h \in -1 .. 1, group \in TargetGroups,
          ord \in Permutations({1} \cup Others) :
          UpdateSubjectCall(Scene(where, e, h, group), group, ord)

SpecTarget == Init /\ [][NextTarget]_vars

--------------------------------------------------------------------------
(* The claims *)

\* C1: find_collisions never returns two pairs that share an animal: the two
\* members of every returned pair are distinct animals of the group, and no
\* animal is in two of the returned pairs.
C1_NoSharedEntity ==
    call.op = "find_collisions" =>
        LET out == call.out
            pair(i) == {out[i][1], out[i][2]}
        IN  /\ \A i \in 1 .. Len(out) :
                  /\ out[i][1] # out[i][2]
                  /\ pair(i) \subseteq Members(call.group)
            /\ \A i, j \in 1 .. Len(out) : i # j => pair(i) \cap pair(j) = {}

\* four animals that all overlap one another give two pairs
C1_Witness ==
    /\ call.op = "find_collisions"
    /\ Len(call.group) = 4
    /\ \A i, j \in 1 .. 4 : collide_circle(call.position[i], call.position[j])
    /\ Len(call.out) = 2

\* the dot and cross products of a returned (numerator) vector with c
DotC(u, c) == u[1].c * c[1] + u[2].c * c[2]

CrossC(u, c) == u[1].c * c[2] - u[2].c * c[1]

\* C6: collide conserves the total momentum: for positive masses and every
\* non-zero center_to_center it returns u1, u2 with
\* m1 * u1 + m2 * u2 = m1 * v1 + m2 * v2, in both coordinates and so along the
\* collision axis.  (u1 and u2 are numerators over call.out.den.)
C6_MomentumConserved ==
    (call.op = "collide" /\ NormSq(call.c) # 0) =>
        /\ ~call.out.err
        /\ call.out.den.w = 0
        /\ \A k \in 1 .. 2 :
              /\ call.out.u1[k].w = 0
              /\ call.out.u2[k].w = 0
              /\ call.m1 * call.out.u1[k].c + call.m2 * call.out.u2[k].c
                   = (call.m1 * call.v1[k] + call.m2 * call.v2[k]) * call.out.den.c
        /\ call.m1 * DotC(call.out.u1, call.c) + call.m2 * DotC(call.out.u2, call.c)
             = (call.m1 * (call.v1[1] * call.c[1] + call.v1[2] * call.c[2])
                + call.m2 * (call.v2[1] * call.c[1] + call.v2[2] * call.c[2]))
               * call.out.den.c

\* unequal masses, a direction off the axes pointing upward on the screen,
\* and both bodies moving so that the collision changes their velocities
C6_Witness ==
    /\ call.op = "collide"
    /\ call.c[1] # 0
    /\ call.c[2] < 0
    /\ call.m1 # call.m2
    /\ call.v1 # <<0, 0>>
    /\ call.v2 # <<0, 0>>
    /\ call.out.u1[1].c # call.v1[1] * call.out.den.c

\* C7: for every non-zero center_to_center, collide applies the 1-D elastic
\* formula to the components along center_to_center and leaves the components
\* perpendicular to it unchanged.
C7_ElasticAlongAxis ==
    (call.op = "collide" /\ NormSq(call.c) # 0) =>
        LET c == call.c
            a1 == call.v1[1] * c[1] + call.v1[2] * c[2]
            a2 == call.v2[1] * c[1] + call.v2[2] * c[2]
        IN  /\ DotC(call.out.u1, c)
                 = NormSq(c) * ((call.m1 - call.m2) * a1 + 2 * call.m2 * a2)
            /\ DotC(call.out.u2, c)
                 = NormSq(c) * (2 * call.m1 * a1 + (call.m2 - call.m1) * a2)
            /\ CrossC(call.out.u1, c)
                 = call.out.den.c * (call.v1[1] * c[2] - call.v1[2] * c[1])
            /\ CrossC(call.out.u2, c)
                 = call.out.den.c * (call.v2[1] * c[2] - call.v2[2] * c[1])

\* the tolerance of assert_array_almost_equal: 10^-6
ToleranceInverse == 1000000

\* |num / den - target| is below the tolerance
Within(num, target, den) ==
    BLess(BMul(ToleranceInverse, BAbs(BSub(num, BMul(target, den)))), den)

\* C8: for each of the four walls and any velocity, collide_animal_into_wall
\* negates the velocity component along the wall's normal and leaves the
\* component along the wall unchanged, within the tolerance.
C8_WallReflection ==
    call.op = "collide_animal_into_wall" =>
        LET n == Normal(call.wall)
            t == <<n[2], n[1]>>
            u == call.out.u
            along(d) == BAdd(BMul(d[1], u[1]), BMul(d[2], u[2]))
        IN  /\ Within(along(n), -(call.v[1] * n[1] + call.v[2] * n[2]), call.out.den)
            /\ Within(along(t), call.v[1] * t[1] + call.v[2] * t[2], call.out.den)

\* an animal behind the bottom wall, moving into it at an angle
C8_Witness ==
    /\ call.op = "collide_animal_into_wall"
    /\ call.wall = "bottom"
    /\ distance_to_wall("bottom", call.p) < 0
    /\ call.v[1] # 0
    /\ call.v[2] > 0
    /\ Velocity(call.out.u, call.out.den) = <<call.v[1], -call.v[2]>>

\* a step of the model that is an iteration of the loop
IsTick == ticks' = ticks + 1

\* C2: over the iterations of the loop an animal only moves from live_animals
\* to dying_animals to neither: no iteration puts an animal into live_animals,
\* none puts into dying_animals an animal that was in neither group, and an
\* animal that is in neither group stays in neither.
C2_PhaseMonotone ==
    [][IsTick =>
          \A a \in Animals :
              /\ a \in Members(live') => a \in Members(live)
              /\ a \in Members(dying') => a \in Members(dying) \cup Members(live)
              /\ a \notin Members(live) \cup Members(dying)
                    => a \notin Members(live') \cup Members(dying')]_vars

\* an animal has been through dying_animals and is in neither group now
C2_Witness ==
    \E a \in added :
        /\ a \notin Members(live) \cup Members(dying)
        /\ frames[a] > 0
        /\ ticks > 1

\* C3: an animal that leaves live_animals in an iteration is, at the end of
\* that iteration, in the eats of no remaining animal and the subject_animal
\* of none.
C3_RelationPruned ==
    [][(IsTick /\ pc' # "crashed") =>
          \A b \in Members(live) \ Members(live') :
              \A a \in Members(live') \cup Members(dying') :
                  b \notin eats'[a] /\ subject'[a] # b]_vars

\* the last iteration saw a collision of predator and prey and a death, and
\* the other animal of the pair is still live
C3_Witness ==
    /\ pc = "running"
    /\ played = <<"death", "collision">>
    /\ Len(live) = 1
    /\ eats[live[1]] = {}

\* C4: also_likes_to_eat called on an animal with that animal among its
\* arguments raises, and no animal is ever in its own eats.
C4_SelfPreyRejected ==
    [][/\ \A a \in Animals, animals \in EatArgs :
             (AlsoLikesToEat(a, animals)
                /\ \E i \in 1 .. Len(animals) : animals[i] = a)
                => raised' = "InvalidRelation"
       /\ \A a \in Animals : a \notin eats'[a]]_vars

\* a call whose second argument is the animal itself: the first argument is
\* in its eats and the call has raised
C4_Witness ==
    /\ raised = "InvalidRelation"
    /\ \E a \in Animals : eats[a] # {}

\* C5 as it is claimed: the health of an animal stays between 0 and its
\* max_health.
C5_HealthClamped ==
    \A a \in Animals : 0 <= health[a] /\ health[a] <= MaxHealthOf(a)

\* C5 as amended: reduce_health(amount) takes amount off the health without
\* clamping, an iteration takes off an animal's health the damage of an animal
\* or nothing, and the health never exceeds max_health.
C5_HealthUnclamped ==
    [][/\ \A a \in Animals : health'[a] <= MaxHealthOf(a)
       /\ \A a \in Animals, amount \in 1 .. MaxAmount :
             ReduceHealth(a, amount) => health'[a] = health[a] - amount
       /\ IsTick =>
             \A b \in Animals :
                 \/ health'[b] = health[b]
                 \/ \E a \in Animals \ {b} : health'[b] = health[b] - DamageOf(a)]_vars

\* an animal whose health is below zero
C5_Witness == \E a \in Animals : health[a] < 0

\* C9: an iteration keeps in live_animals every animal whose health is above
\* 0 after it, and moves out of live_animals, into dying_animals (and out of
\* that too only if it is off screen), every animal whose health is 0 or
\* below: at the end of an iteration no live animal is dead.
C9_DeadLeaveLive ==
    [][IsTick =>
          /\ \A a \in Members(live) :
                /\ health'[a] > 0 => a \in Members(live')
                /\ health'[a] <= 0 =>
                      /\ a \notin Members(live')
                      /\ \/ a \in Members(dying')
                         \/ off_screen(BeforeUpdate.position[a])
          /\ \A a \in Members(live') : health'[a] > 0]_vars

\* an animal of max_health 2 that was hit by damage 1 in two iterations and
\* has just become dying
C9_Witness ==
    \E a \in Members(dying) :
        /\ MaxHealthOf(a) = 2
        /\ health[a] = 0
        /\ frames[a] = 1
        /\ reduce_calls = 0
        /\ pc = "running"

\* C10: in every iteration that completes, a dying animal whose counter
\* exceeds num_death_frames or that is off screen is dropped from both groups,
\* and the counter of every other dying animal, and of every animal that
\* becomes dying, advances by one and is at most num_death_frames + 1.
C10_DyingRemoved ==
    [][(IsTick /\ pc' # "crashed") =>
          /\ \A a \in Members(dying) :
                IF frames[a] > num_death_frames \/ off_screen(position[a])
                THEN a \notin Members(live') \cup Members(dying')
                ELSE /\ a \in Members(dying')
                     /\ frames'[a] = frames[a] + 1
                     /\ frames'[a] <= num_death_frames + 1
          /\ \A a \in Members(live) :
                a \in Members(dying') => frames'[a] = frames[a] + 1]_vars

\* an animal dropped because its death animation finished
C10_Witness ==
    \E a \in added :
        /\ a \notin Members(live) \cup Members(dying)
        /\ frames[a] = num_death_frames + 1
        /\ ~off_screen(position[a])

\* C11: at the end of an iteration that completes, simulation_completed of
\* all_animals is true exactly when both groups are empty or every live animal
\* has no subject_animal (a dying animal never makes it false), and the end
\* text exists from then on.
C11_CompletedWhenNoFocus ==
    [][(IsTick /\ pc' # "crashed") =>
          /\ simulation_completed(World', all_animals(World'))
               <=> \/ Members(live') \cup Members(dying') = {}
                   \/ \A a \in Members(live') : subject'[a] = None
          /\ end_text'
               <=> (end_text \/ simulation_completed(World', all_animals(World')))]_vars

\* an iteration has ended with a live animal that has no subject_animal and a
\* dying animal, and the simulation is completed
C11_Witness ==
    /\ pc = "running"
    /\ ticks > 0
    /\ Members(live) # {}
    /\ Members(dying) # {}
    /\ simulation_completed(World, all_animals(World))
    /\ end_text

\* C12 as it is claimed: no iteration is executed once simulation_completed
\* was true at the end of an iteration.
C12_NoTickAfterCompleted == [][IsTick => ~end_text]_vars

\* C12 as amended: the loop ends only in an iteration that found the QUIT
\* event or raised; an iteration that finds no QUIT event and does not raise
\* leaves the loop running, whether or not the simulation is completed.
C12_LoopRunsUntilQuit ==
    [][IsTick =>
          /\ pc \in {"running", "quitting"}
          /\ pc' = "crashed" <=> raised' # "none"
          /\ pc' = "stopped" <=> (pc = "quitting" /\ raised' = "none")
          /\ pc' = "running" <=> (pc = "running" /\ raised' = "none")]_vars

\* three iterations have been made with no animal ever added: the simulation
\* was completed at the end of the first
C12_Witness ==
    /\ pc = "running"
    /\ added = {}
    /\ ticks >= 3
    /\ end_text

\* the number of play() calls of a cue in the last iteration
Plays(cue) == Cardinality({i \in 1 .. Len(played) : played[i] = cue})

\* C13: an iteration that completes asks for each cue to be played at most
\* once: the death cue once iff it moved an animal to dying_animals, however
\* many it moved, the collision cue once iff a collision it found injured an
\* animal; and both flags are False after it, so a cue is not played again by
\* a later iteration that raised none.
C13_OnePlayPerCue ==
    [][(IsTick /\ pc' # "crashed") =>
          /\ Plays("death")' =
                IF Members(live) \ Members(live') # {} THEN 1 ELSE 0
          /\ Plays("collision")' =
                IF \E i \in 1 .. Len(find_collisions(live, position)) :
                      animals_were_injured(World,
                                           find_collisions(live, position)[i][1],
                                           find_collisions(live, position)[i][2])
                THEN 1 ELSE 0
          /\ ~play_death_sound'
          /\ ~play_collision_sound']_vars

\* the two animals collided in the last iteration (so both were live), both
\* were moved to dying_animals by it, and the death cue was played once
C13_Witness ==
    /\ pc = "running"
    /\ ticks >= 2
    /\ Len(dying) = 2
    /\ \A a \in Members(dying) : frames[a] = 1
    /\ Plays("death") = 1
    /\ Plays("collision") = 1

\* the damage dealt to b by the collisions found: that of every animal it is
\* paired with that wants to eat it
Dealt(found, b) ==
    LET hits(i) ==
            IF found[i][2] = b /\ b \in eats[found[i][1]]
            THEN DamageOf(found[i][1])
            ELSE IF found[i][1] = b /\ b \in eats[found[i][2]]
            THEN DamageOf(found[i][2])
            ELSE 0
        sum[i \in 0 .. Len(found)] == IF i = 0 THEN 0 ELSE sum[i - 1] + hits(i)
    IN  sum[Len(found)]

\* C14: for each collision (a, b) found in an iteration, the health of b is
\* reduced by the damage of a exactly when a wants to eat b and that of a by
\* the damage of b exactly when b wants to eat a; the health of an animal
\* that is in no collision found is unchanged by the iteration.
C14_DamageIfPrey ==
    [][IsTick =>
          \A b \in Animals :
              health'[b] = health[b] - Dealt(find_collisions(live, position), b)]_vars

\* the first iteration injured both animals, each by the damage of the other
C14_Witness ==
    /\ ticks = 1
    /\ reduce_calls = 0
    /\ health[1] = MaxHealthOf(1) - DamageOf(2)
    /\ health[2] = MaxHealthOf(2) - DamageOf(1)

\* C15: find_collisions leaves the group it is given unchanged: after the
\* call the group has the members it had, in the same number, whether or not
\* collisions were found.
C15_GroupUnchanged ==
    call.op = "find_collisions" =>
        /\ call.after = call.group
        /\ Len(call.after) = Len(call.group)

\* a call that found a collision in a group that also has an animal in none
C15_Witness ==
    /\ call.op = "find_collisions"
    /\ Len(call.group) = 3
    /\ Len(call.out) = 1

\* C16: off_screen is true exactly when the animal's bounding box, of its
\* width and height around the centre, lies entirely outside the screen
\* extended by half the animal's width and height on every side: the centre is
\* more than the full width left of 0 or right of the screen's width, or more
\* than the full height above 0 or below the screen's height.  A centre on an
\* edge or a corner of the screen is not off screen.  (Coordinates doubled.)
C16_OffScreenBeyondExtent ==
    call.op = "off_screen" =>
        LET x == call.p[1]
            y == call.p[2]
        IN  /\ call.out <=>
                 \/ 2 * x + AnimalWidth < -AnimalWidth
                 \/ 2 * x - AnimalWidth > 2 * ScreenWidth + AnimalWidth
                 \/ 2 * y + AnimalHeight < -AnimalHeight
                 \/ 2 * y - AnimalHeight > 2 * ScreenHeight + AnimalHeight
            /\ (x \in {0, ScreenWidth} /\ y \in {0, ScreenHeight}) => ~call.out

\* a centre exactly the animal's width left of 0 is not off screen
C16_Witness ==
    /\ call.op = "off_screen"
    /\ call.p = <<-AnimalWidth, 0>>
    /\ ~call.out

\* the pairing of find_collisions, stated over the answer of one call for an
\* overlap test given as the set of the overlapping pairs of animals: the
\* pairs come in the order of their first members; the first member of a pair
\* is an animal that no earlier pair has claimed and that has a later,
\* unclaimed animal overlapping it; its second member is the first such animal
\* in the order of the group; and every animal like that is the first member
\* of a pair
GreedyPairs(n, out, overlapping) ==
    LET Claimed(a) == {x \in 1 .. n : \E k \in 1 .. Len(out) :
                          out[k][1] < a /\ x \in {out[k][1], out[k][2]}}
        Partners(a) == {b \in (a + 1) .. n :
                          b \notin Claimed(a) /\ <<a, b>> \in overlapping}
        Firsts == {a \in 1 .. n : a \notin Claimed(a) /\ Partners(a) # {}}
    IN  /\ \A k \in 1 .. Len(out) :
              /\ out[k][1] \in Firsts
              /\ out[k][2] \in Partners(out[k][1])
              /\ \A b \in Partners(out[k][1]) : out[k][2] <= b
        /\ \A a \in Firsts : \E k \in 1 .. Len(out) : out[k][1] = a
        /\ \A k, l \in 1 .. Len(out) : k < l => out[k][1] < out[l][1]

\* C17 as stated: find_collisions pairs greedily in the order of the group,
\* where two animals overlap when the distance of their centres is strictly
\* less than the sum of their radii, so that two animals whose centres are
\* exactly the sum of the radii apart are not reported.
C17_GreedyStrictOverlap ==
    call.op = "find_collisions" =>
        GreedyPairs(Len(call.group), call.out,
                    {ab \in (1 .. Len(call.group)) \X (1 .. Len(call.group)) :
                        NormSq(VSub(call.position[ab[1]], call.position[ab[2]]))
                          < (Radius + Radius) * (Radius + Radius)})

\* C17, amended: find_collisions pairs greedily in the order of the group,
\* where two animals overlap when the distance of their centres is at most
\* the sum of their radii: two animals whose centres are exactly the sum of
\* the radii apart are reported, as are two animals at the same position.
C17_GreedyTouchingOverlap ==
    call.op = "find_collisions" =>
        GreedyPairs(Len(call.group), call.out,
                    {ab \in (1 .. Len(call.group)) \X (1 .. Len(call.group)) :
                        NormSq(VSub(call.position[ab[1]], call.position[ab[2]]))
                          <= (Radius + Radius) * (Radius + Radius)})

\* three animals, the second clear of the first and the third exactly the sum
\* of the radii away from it: the first is paired with the third
C17_Witness ==
    /\ call.op = "find_collisions"
    /\ Len(call.group) = 3
    /\ call.position[1] = <<0, 0>>
    /\ call.position[2] = <<16, 0>>
    /\ call.position[3] = <<Radius + Radius, 0>>
    /\ call.out = << <<1, 3>> >>

\* the walls an animal at p is behind
Breached(p) ==
    {WallNames[i] : i \in {j \in 1 .. Len(WallNames) :
                              distance_to_wall(WallNames[j], p) < 0}}

\* C18: collided_with_wall returns the first wall, in the order top, left,
\* bottom, right, whose signed distance to the animal is negative, and no wall
\* when none is negative; find_wall_collisions therefore reports every animal
\* of the group at most once, with one wall, also an animal that is behind two
\* walls at a corner.
C18_FirstWallInOrder ==
    /\ call.op = "collided_with_wall" =>
          call.out = IF distance_to_wall("top", call.p) < 0 THEN "top"
                     ELSE IF distance_to_wall("left", call.p) < 0 THEN "left"
                     ELSE IF distance_to_wall("bottom", call.p) < 0 THEN "bottom"
                     ELSE IF distance_to_wall("right", call.p) < 0 THEN "right"
                     ELSE "none"
    /\ call.op = "find_wall_collisions" =>
          /\ \A a \in 1 .. Len(call.group) :
                Cardinality({k \in 1 .. Len(call.out) : call.out[k][1] = a})
                  = IF Breached(call.position[a]) = {} THEN 0 ELSE 1
          /\ \A k \in 1 .. Len(call.out) :
                call.out[k][2] \in Breached(call.position[call.out[k][1]])
          /\ \A k, l \in 1 .. Len(call.out) :
                k < l => call.out[k][1] < call.out[l][1]

\* an animal behind the left and the top wall is reported with the top wall
\* only, one behind the left and the bottom wall with the left wall only
C18_Witness ==
    /\ call.op = "find_wall_collisions"
    /\ Len(call.group) = 2
    /\ Breached(call.position[1]) = {"top", "left"}
    /\ Breached(call.position[2]) = {"left", "bottom"}
    /\ call.out = << <<1, "top">>, <<2, "left">> >>

\* C19: after collide_animal_into_wall on an animal that is behind the wall
\* (its signed distance to the wall is negative), the animal's signed distance
\* to that wall is not negative: the animal has been moved along the wall's
\* normal by at least the amount of the breach, and its coordinate along the
\* wall is unchanged.
C19_BackInsideWall ==
    (/\ call.op = "collide_animal_into_wall"
     /\ distance_to_wall(call.wall, call.p) < 0) =>
        LET moved == VSub(call.out.position, call.p)
            normal == Normal(call.wall)
        IN  /\ distance_to_wall(call.wall, call.out.position) >= 0
            /\ moved[1] * normal[1] + moved[2] * normal[2]
                 >= -distance_to_wall(call.wall, call.p)
            /\ IF call.wall \in {"top", "bottom"}
               THEN call.out.position[1] = call.p[1]
               ELSE call.out.position[2] = call.p[2]

\* an animal MaxBreach behind the right wall has been moved to the wall
C19_Witness ==
    /\ call.op = "collide_animal_into_wall"
    /\ call.wall = "right"
    /\ distance_to_wall("right", call.p) = -MaxBreach
    /\ call.out.position = <<call.p[1] - MaxBreach, call.p[2]>>
    /\ distance_to_wall("right", call.out.position) = 0

\* C20: collide_animals on two animals at exactly the same position lets them
\* pass through each other: it returns without raising, and the position and
\* the velocity of both animals are as they were before the call.
C20_SamePositionPassThrough ==
    (/\ call.op = "collide_animals"
     /\ call.before.position[1] = call.before.position[2]) =>
        /\ call.out.crashed = "none"
        /\ \A a \in {1, 2} :
              /\ call.out.position[a] = call.before.position[a]
              /\ call.out.velocity[a] = call.before.velocity[a]
              /\ call.out.nan[a] = call.before.nan[a]

\* two animals at the same position that move towards each other's side
C20_Witness ==
    /\ call.op = "collide_animals"
    /\ call.before.position[1] = call.before.position[2]
    /\ call.before.velocity[1] = <<MaxVel, 0>>
    /\ call.before.velocity[2] = <<-MaxVel, 0>>
    /\ call.out.velocity = call.before.velocity

\* C21: the ValueError that normalized_vector_to raises for two animals at
\* the same position never leaves an iteration of the loop: collide_animals
\* and the subject_animal setter find the animals on top of each other first
\* and skip the call, wherever the animals are.
C21_NoDegenerateDirection ==
    [][IsTick => raised' # "DegenerateDirection"]_vars

\* an iteration has completed in which an animal was given a subject_animal at
\* its own position, after the two had been found colliding at distance 0
C21_Witness ==
    /\ pc = "running"
    /\ raised = "none"
    /\ ticks > 0
    /\ \E a \in Members(live) :
          /\ subject[a] \in Members(live)
          /\ on_top(position[a], position[subject[a]])
          /\ propulsion_force[a] = <<0, 0>>
          /\ health[subject[a]] < MaxHealthOf(subject[a])

\* the prey of animal 1 that are in the group of a call of
\* update_subject_animal, and the squared distance of an animal from animal 1
PreyPresent == call.before.eats[1] \cap Members(call.group)

DistanceSq(x) == NormSq(VSub(call.before.position[x], call.before.position[1]))

\* C22: after update_subject_animal on an animal whose health is above 0, its
\* subject_animal is one of its prey that are in the group, at the least
\* distance from it, and is None exactly when it has no prey in the group; for
\* an animal whose health is 0 or below the subject_animal is None and the
\* propulsion force is zero.
C22_NearestPresentPrey ==
    call.op = "update_subject_animal" =>
        /\ call.out.crashed = "none"
        /\ IF call.before.health[1] > 0
           THEN /\ call.out.subject[1] = None <=> PreyPresent = {}
                /\ PreyPresent # {} =>
                      /\ call.out.subject[1] \in PreyPresent
                      /\ \A y \in PreyPresent :
                            DistanceSq(call.out.subject[1]) <= DistanceSq(y)
           ELSE /\ call.out.subject[1] = None
                /\ call.out.propulsion_force[1] = <<0, 0>>

\* an animal with two prey in the group, the one that comes later in the
\* group being the nearer: that one is its subject_animal
C22_Witness ==
    /\ call.op = "update_subject_animal"
    /\ call.before.health[1] > 0
    /\ call.group = <<1, 2, 3>>
    /\ PreyPresent = {2, 3}
    /\ DistanceSq(3) < DistanceSq(2)
    /\ call.out.subject[1] = 3

\* C23: where two or more prey that are in the group are at the same least
\* distance from the animal, update_subject_animal picks the one that comes
\* first in the order of the group, so that the subject_animal is a function
\* of the group's order, the positions and the prey.
C23_TieByPopulationOrder ==
    (/\ call.op = "update_subject_animal"
     /\ call.before.health[1] > 0
     /\ PreyPresent # {}) =>
        LET nearest == {x \in PreyPresent :
                           \A y \in PreyPresent : DistanceSq(x) <= DistanceSq(y)}
        IN  \A x \in nearest :
                Rank(call.group, call.out.subject[1]) <= Rank(call.group, x)

\* animal 1 of a call of update_subject_animal is alive and a prey of it
\* that is in the group is at its own position
PreyOnTop ==
    /\ call.op = "update_subject_animal"
    /\ call.before.health[1] > 0
    /\ \E x \in PreyPresent : DistanceSq(x) = 0

\* C24 as stated: an animal whose nearest prey in the group is at its own
\* position has no subject_animal after update_subject_animal (and a zero
\* propulsion force), so that it does not keep the simulation from being
\* completed.
C24_NoFocusOnTop ==
    PreyOnTop =>
        /\ call.out.subject[1] = None
        /\ call.out.propulsion_force[1] = <<0, 0>>
        /\ simulation_completed(call.out, <<1>>)

\* C24, amended: an animal whose nearest prey in the group is at its own
\* position has that prey, or another prey at its own position, as its
\* subject_animal after update_subject_animal, with a zero propulsion force;
\* the subject_animal is not None, and simulation_completed is false of a
\* population with this animal in it.
C24_FocusKeptOnTop ==
    PreyOnTop =>
        /\ call.out.subject[1] \in PreyPresent
        /\ DistanceSq(call.out.subject[1]) = 0
        /\ call.out.propulsion_force[1] = <<0, 0>>
        /\ ~simulation_completed(call.out, <<1>>)

\* the only prey of animal 1 is at its position: it is the subject_animal,
\* and the force that was left from before is zero
C24_Witness ==
    /\ PreyOnTop
    /\ PreyPresent = {3}
    /\ call.before.propulsion_force[1] # <<0, 0>>
    /\ call.out.subject[1] = 3
    /\ call.out.propulsion_force[1] = <<0, 0>>

\* C25: at the end of every iteration that completes, the subject_animal of
\* every animal of the two groups, if it has one, is an animal of live_animals
\* other than itself that it wants to eat or that wants to eat it; and no
\* iteration ends with the ValueError that the subject_animal setter raises
\* for an animal that is neither prey nor hunter.
C25_FocusIsLivePreyOrHunter ==
    [][IsTick =>
          /\ raised' # "InvalidFocusRelation"
          /\ pc' # "crashed" =>
                \A a \in Members(live') \cup Members(dying') :
                    subject'[a] # None =>
                        /\ subject'[a] \in Members(live')
                        /\ subject'[a] # a
                        /\ \/ wants_to_eat(eats', a, subject'[a])
                           \/ wants_to_eat(eats', subject'[a], a)]_vars

\* after an iteration two live animals have each other as subject_animal
C25_Witness ==
    /\ pc = "running"
    /\ ticks > 0
    /\ \E a \in Members(live) :
          /\ subject[a] \in Members(live) \ {a}
          /\ subject[subject[a]] = a
          /\ position[a] # position[subject[a]]

\* the state of an iteration after its kill loop
AfterKill == kill_dead(wall_collisions(collisions(World)))

\* C26: every animal that the kill loop of an iteration moves from
\* live_animals to dying_animals leaves the loop with a velocity that is
\* defined and has the magnitude 200, whatever its speed was, the speed 0
\* included.
C26_ExitSpeedDefined ==
    pc \in {"running", "quitting"} =>
        \A a \in Members(live) :
            a \notin Members(AfterKill.live) =>
                /\ ~AfterKill.nan[a]
                /\ NormAxis(AfterKill.velocity[a]) = ExitSpeed

\* C27: after any sequence of add_animals calls and iterations of the loop
\* (with no reduce_health call from outside the loop), no animal is in
\* live_animals and in dying_animals at the same time; and every animal in
\* dying_animals is dead, its health being 0 or below.
C27_GroupsDisjointDyingDead ==
    /\ reduce_calls = 0 => Members(live) \cap Members(dying) = {}
    /\ \A a \in Members(dying) : health[a] <= 0

\* after some iterations one animal is live and the other, which the loop
\* has killed, is dying
C27_Witness ==
    /\ reduce_calls = 0
    /\ ticks > LastAddTick
    /\ pc = "running"
    /\ Len(live) = 1
    /\ Len(dying) = 1
    /\ live # dying

\* C28: once simulation_completed is true at the end of an iteration, it is
\* true at the end of every later iteration that completes, as long as no
\* animal and no prey is added from outside the loop (which the model does
\* up to iteration LastAddTick only).
C28_CompletionStable ==
    [][(/\ IsTick
        /\ ticks > LastAddTick
        /\ pc' # "crashed"
        /\ simulation_completed(World, all_animals(World)))
          => simulation_completed(World', all_animals(World'))]_vars

\* the simulation has been completed since the live animal's prey died two
\* or more iterations ago, and the animal is still live
C28_Witness ==
    /\ pc = "running"
    /\ ticks > LastAddTick + 2
    /\ simulation_completed(World, all_animals(World))
    /\ \E a \in Members(live), b \in Members(dying) :
          /\ MaxHealthOf(b) - health[b] = DamageOf(a)
          /\ frames[b] > 2
          /\ reduce_calls = 0

\* the animals of a call of find_collisions that are in no returned pair
Unpaired ==
    Members(call.group)
      \ UNION {{call.out[k][1], call.out[k][2]} : k \in 1 .. Len(call.out)}

\* C29: the pairing that find_collisions returns is maximal: no two animals
\* that are both in no pair overlap each other, so that the list is empty
\* exactly when no two animals of the group overlap.
C29_PairingMaximal ==
    call.op = "find_collisions" =>
        /\ \A a, b \in Unpaired :
              a # b => ~collide_circle(call.position[a], call.position[b])
        /\ call.out = <<>> <=>
              \A a, b \in Members(call.group) :
                  a # b => ~collide_circle(call.position[a], call.position[b])

\* four animals, one pair returned; the two animals left over are clear of
\* each other, and one of them overlaps an animal of the pair
C29_Witness ==
    /\ call.op = "find_collisions"
    /\ Len(call.group) = 4
    /\ Len(call.out) = 1
    /\ Cardinality(Unpaired) = 2
    /\ \E u \in Unpaired, p \in Members(call.group) \ Unpaired :
          collide_circle(call.position[u], call.position[p])

==========================================================================
